---- MODULE Spec2Model ----
(***************************************************************************)
(* AtlasECS (include/AtlasECS.hpp): SparseSet, the component registry and  *)
(* component stores, CWorld and CSystem, as a state machine.  A world is   *)
(* constructed together with one CSystem-derived system; the client then   *)
(* calls CreateEntity, AddComponent, RemoveComponent and DestroyEntity.    *)
(* Listener dispatch is synchronous, so each public call is one step.      *)
(***************************************************************************)
EXTENDS Integers, Sequences, FiniteSets, TLC

(***************************************************************************)
(* Bounds of the model.                                                    *)
(***************************************************************************)
\* Entity ids handed out by the counter stay below MaxEntities.
MaxEntities == 2
\* Component values passed to AddComponent are 1..MaxValue.
MaxValue == 1
\* Longest parameter pack of AddComponent / CreateEntity( Components... ).
MaxPack == 2

(***************************************************************************)
(* Component types of the client (tests/TestComponents.h), in the order in *)
(* which their static members are instantiated.                            *)
(***************************************************************************)
ComponentTypes == <<"FPositionComponent", "FNameComponent", "FStaticMeshComponent">>

\* FBaseComponent::RegisterComponent, called once per type in instantiation
\* order: the n-th type (n = 1, 2, ...) gets the counter value n - 1.
RegisterComponent(n) == n - 1

\* FBaseComponent::GenerateBitset: the n-th call sets bit n - 1 and no other.
\* A BitMask is modelled as the set of its set bits.
GenerateBitset(n) == {n - 1}

TypeIndex(T) == CHOOSE n \in 1..Len(ComponentTypes) : ComponentTypes[n] = T

\* FComponent<T>::Id, ::Filter, ::Size (sizeof on an LP64 build).
Id(T) == RegisterComponent(TypeIndex(T))
Filter(T) == GenerateBitset(TypeIndex(T))
SizeOf == <<24, 48, 16>>
Size(T) == SizeOf[TypeIndex(T)]

Types == {ComponentTypes[n] : n \in 1..Len(ComponentTypes)}

\* The static members FComponent<T>::Id and ::Filter and the function-local
\* counters of RegisterComponent and GenerateBitset, once every type's Id and
\* Filter have been initialised in the order of ComponentTypes.  The world
\* is modelled with the registry in this state.
InstantiatedInOrder ==
    [componentId |-> Len(ComponentTypes),
     bit |-> Len(ComponentTypes),
     initialized |-> Types \X {"Id", "Filter"},
     Id |-> [T \in Types |-> Id(T)],
     Filter |-> [T \in Types |-> Filter(T)]]
ComponentIds == {Id(T) : T \in Types}
TypeOfId(id) == CHOOSE T \in Types : Id(T) = id
Entities == 0..(MaxEntities - 1)
Values == 1..MaxValue

(***************************************************************************)
(* std::vector helpers; C++ index i is sequence position i + 1.            *)
(***************************************************************************)
At(vec, i) == vec[i + 1]
Put(vec, i, x) == [vec EXCEPT ![i + 1] = x]
resize(vec, n, fill) ==
    IF n <= Len(vec) THEN SubSeq(vec, 1, n)
    ELSE vec \o [k \in 1..(n - Len(vec)) |-> fill]

(***************************************************************************)
(* SparseSet<T>                                                            *)
(***************************************************************************)
EmptySparseSet ==
    [m_DenseArray |-> <<>>, m_SparseArray |-> <<>>, m_Size |-> 0, m_Capacity |-> 0]

clear(set) == [set EXCEPT !.m_Size = 0]

reserve(set, cap) ==
    IF cap > set.m_Capacity
    THEN [set EXCEPT !.m_DenseArray = resize(@, cap, 0),
                     !.m_SparseArray = resize(@, cap, 0),
                     !.m_Capacity = cap]
    ELSE set

\* T is uint32_t.  A value of 2^31 or more is written as the negative number
\* congruent to it modulo 2^32, so the largest value of T is written -1 and
\* val + 1 wraps to 0 on it.
UINT32_MAX == -1

\* val < n for val of type T and a size_t n below 2^31.
Below(val, n) == val >= 0 /\ val < n

has(set, val) ==
    /\ Below(val, set.m_Capacity)
    /\ At(set.m_SparseArray, val) < set.m_Size
    /\ At(set.m_DenseArray, At(set.m_SparseArray, val)) = val

\* Mutant of insert: the set is left as it is.
insert_Nothing(set, val) == set

insert(set, val) ==
    IF ~has(set, val)
    THEN LET grown == IF ~Below(val, set.m_Capacity) THEN reserve(set, val + 1) ELSE set
         IN [grown EXCEPT !.m_DenseArray = IF grown.m_Size < Len(@)
                                           THEN Put(@, grown.m_Size, val) ELSE @,
                          !.m_SparseArray = IF Below(val, Len(@))
                                            THEN Put(@, val, grown.m_Size) ELSE @,
                          !.m_Size = @ + 1]
    ELSE set

\* insert( val ) indexes m_DenseArray or m_SparseArray past its end, which is
\* undefined behaviour; insert above then leaves the array as it is.
insert_OutOfRange(set, val) ==
    /\ ~has(set, val)
    /\ LET grown == IF ~Below(val, set.m_Capacity) THEN reserve(set, val + 1) ELSE set
       IN grown.m_Size >= Len(grown.m_DenseArray)
             \/ ~Below(val, Len(grown.m_SparseArray))

\* erase( val ) indexes past the end of an array.
erase_OutOfRange(set, val) ==
    /\ has(set, val)
    /\ \/ set.m_Size - 1 >= Len(set.m_DenseArray)
       \/ ~Below(At(set.m_DenseArray, set.m_Size - 1), Len(set.m_SparseArray))

\* Mutant of erase: the set is left as it is.
erase_Nothing(set, val) == set

erase(set, val) ==
    IF has(set, val)
    THEN LET last == At(set.m_DenseArray, set.m_Size - 1)
             pos == At(set.m_SparseArray, val)
             dense == Put(set.m_DenseArray, pos, last)
             \* the second statement reads m_DenseArray[ m_Size - 1 ] again,
             \* after the first statement's write
             sparse == Put(set.m_SparseArray, At(dense, set.m_Size - 1), pos)
         IN [set EXCEPT !.m_DenseArray = dense,
                        !.m_SparseArray = sparse,
                        !.m_Size = @ - 1]
    ELSE set

\* The elements SparseSet::has answers true for.
Members(set) == {v \in 0..(set.m_Capacity - 1) : has(set, v)}

(***************************************************************************)
(* State: the members of CWorld and of the CSystem subscribed to it.       *)
(***************************************************************************)
VARIABLES
    m_LargestEntityIndex,
    m_Entities,                  \* SparseSet<Entity>
    m_DeletedEntities,           \* std::deque<Entity>, front first
    m_EntityMasks,               \* std::vector<BitMask>
    masksCapacity,               \* m_EntityMasks.capacity( )
    m_ContainedComponentIDs,     \* per entity: forward_list of ids, front first
    m_ComponentDestroyFunctions, \* per entity: row of destroy hooks by id
    m_ValidComponents,           \* per id: <count of valid, size of type>
    m_ComponentBuffers,          \* per id: the records of the byte buffer
    m_MatchingEntities,          \* CSystem: SparseSet<uint32_t>
    m_InclusionMask,
    m_ExclusionMask_Any,
    m_ExclusionMask_All,
    m_OnComponentAddedFunctions,   \* std::vector of listeners, by name
    m_OnComponentRemovedFunctions,
    faults,                      \* what the execution has run into so far
    recording,                   \* whether calls and cout are being recorded
    calls,                       \* listener invocations of the last public call
    hookCalls,                   \* destroy hooks DestroyEntity invoked in the
                                 \* last public call
    cout,                        \* lines the world printed in the last public call
    returned,                    \* the Entity the last public call returned
    handedOut,                   \* client: ids CreateEntity returned to it and
                                 \* it has not passed to DestroyEntity since
    freedOrder,                  \* client: the ids it destroyed and has not been
                                 \* handed again, earliest destroyed first
    subscriptions,               \* client: <<kind, listener>> in the order in
                                 \* which it registered listeners
    registry,                    \* the statics of FBaseComponent and
                                 \* FComponent<T>
    sparseSet,                   \* a SparseSet<uint32_t> used on its own
    inserted,                    \* client: the values it inserted into it and
                                 \* has not erased, in the order of insertion
    erased                       \* client: whether it erased a value it had
                                 \* inserted since it was last cleared

vars == <<m_LargestEntityIndex, m_Entities, m_DeletedEntities, m_EntityMasks,
          masksCapacity, m_ContainedComponentIDs, m_ComponentDestroyFunctions,
          m_ValidComponents, m_ComponentBuffers, m_MatchingEntities,
          m_InclusionMask, m_ExclusionMask_Any, m_ExclusionMask_All,
          m_OnComponentAddedFunctions, m_OnComponentRemovedFunctions, faults,
          recording, calls, hookCalls, cout, returned, handedOut, freedOrder,
          subscriptions, registry, sparseSet, inserted, erased>>

\* The state as one record, so that an operation can be written as a function
\* from state to state and operations can call each other.
State ==
    [m_LargestEntityIndex |-> m_LargestEntityIndex,
     m_Entities |-> m_Entities,
     m_DeletedEntities |-> m_DeletedEntities,
     m_EntityMasks |-> m_EntityMasks,
     masksCapacity |-> masksCapacity,
     m_ContainedComponentIDs |-> m_ContainedComponentIDs,
     m_ComponentDestroyFunctions |-> m_ComponentDestroyFunctions,
     m_ValidComponents |-> m_ValidComponents,
     m_ComponentBuffers |-> m_ComponentBuffers,
     m_MatchingEntities |-> m_MatchingEntities,
     m_InclusionMask |-> m_InclusionMask,
     m_ExclusionMask_Any |-> m_ExclusionMask_Any,
     m_ExclusionMask_All |-> m_ExclusionMask_All,
     m_OnComponentAddedFunctions |-> m_OnComponentAddedFunctions,
     m_OnComponentRemovedFunctions |-> m_OnComponentRemovedFunctions,
     faults |-> faults,
     calls |-> calls,
     hookCalls |-> hookCalls,
     cout |-> cout]

Commit(s) ==
    /\ m_LargestEntityIndex' = s.m_LargestEntityIndex
    /\ m_Entities' = s.m_Entities
    /\ m_DeletedEntities' = s.m_DeletedEntities
    /\ m_EntityMasks' = s.m_EntityMasks
    /\ masksCapacity' = s.masksCapacity
    /\ m_ContainedComponentIDs' = s.m_ContainedComponentIDs
    /\ m_ComponentDestroyFunctions' = s.m_ComponentDestroyFunctions
    /\ m_ValidComponents' = s.m_ValidComponents
    /\ m_ComponentBuffers' = s.m_ComponentBuffers
    /\ m_MatchingEntities' = s.m_MatchingEntities
    /\ m_InclusionMask' = s.m_InclusionMask
    /\ m_ExclusionMask_Any' = s.m_ExclusionMask_Any
    /\ m_ExclusionMask_All' = s.m_ExclusionMask_All
    /\ m_OnComponentAddedFunctions' = s.m_OnComponentAddedFunctions
    /\ m_OnComponentRemovedFunctions' = s.m_OnComponentRemovedFunctions
    /\ faults' = s.faults
    /\ calls' = IF recording THEN s.calls ELSE <<>>
    /\ hookCalls' = IF recording THEN s.hookCalls ELSE <<>>
    /\ cout' = IF recording THEN s.cout ELSE <<>>
    /\ UNCHANGED <<recording, registry, sparseSet, inserted, erased>>

(***************************************************************************)
(* Memory of a component buffer.  The byte buffer of type T is modelled by *)
(* its records: record k covers bytes [k * Size, (k + 1) * Size).  Where   *)
(* an object is alive (constructed and not yet destructed) the record      *)
(* keeps its value and the FBaseComponent::Entity written into it; every   *)
(* other record, zero-filled by std::vector::resize or left behind by a    *)
(* destructor, holds no object.                                            *)
(***************************************************************************)
ZeroRecord == [val |-> 0, Entity |-> 0, live |-> FALSE]
Object(comp, entity) == [val |-> comp, Entity |-> entity, live |-> TRUE]

\* A destroy hook is a std::function<void( )>: empty, or the lambda of
\* ComponentCreate holding a pointer to a record.  stale: the buffer the
\* pointer points into has been reallocated since.
NoHook == [installed |-> FALSE, slot |-> 0, stale |-> FALSE]
HookTo(k) == [installed |-> TRUE, slot |-> k, stale |-> FALSE]
EmptyHookRow == [id \in ComponentIds |-> NoHook]

\* Faults an execution can run into.
\*   "no_object"   a destructor ran where no object is alive: on a record
\*                 that holds none, or past the end of the buffer
\*   "stale_hook"  a destroy hook was invoked whose pointer dangles
\*   "table_range" a per-entity table was indexed past its end
\*   "overwrite"   an object was constructed over a live one, whose
\*                 destructor therefore never runs
\*   "terminated"  the process was terminated
\* The first three are undefined behaviour.
UndefinedBehaviour == {"no_object", "stale_hook", "table_range"}
Fault(s, tag) == [s EXCEPT !.faults = @ \cup {tag}]

(***************************************************************************)
(* Component stores                                                        *)
(***************************************************************************)
\* ComponentCreate<Component>( buffer, entity, comp ).  `records` are the
\* records of `buffer`, so buffer.size( ) = Len(records) * Size.  Returns the
\* records after the call, the record the object was constructed in (the
\* destroy hook points there), whether the vector reallocated, and whether
\* the object was constructed over a live one.
ComponentCreate(records, entity, comp, T) ==
    LET size0 == Len(records) * Size(T)            \* index = buffer.size( )
        fits == size0 # 0 /\ entity < (size0 \div Size(T))
        index == IF size0 = 0 THEN 0
                 ELSE IF fits THEN entity * Size(T)
                 ELSE size0
        newSize == IF size0 = 0 THEN Size(T)
                   ELSE IF fits THEN size0
                   ELSE size0 * 2
        grown == resize(records, newSize \div Size(T), ZeroRecord)
        k == index \div Size(T)
    IN [records |-> Put(grown, k, Object(comp, entity)),
        slot |-> k,
        realloc |-> size0 # 0 /\ newSize # size0,
        overwrote |-> At(grown, k).live]

\* component->~Component( ) on record k of the buffer of id.
Destruct(s, id, k) ==
    LET records == s.m_ComponentBuffers[id]
    IN IF k >= Len(records) THEN Fault(s, "no_object")
       ELSE IF ~At(records, k).live THEN Fault(s, "no_object")
       ELSE [s EXCEPT !.m_ComponentBuffers[id] =
                          Put(@, k, ZeroRecord)]

\* ComponentFree<Component>( comp ), comp = &memory[ entity * T::Size ].
ComponentFree(s, T, index) == Destruct(s, Id(T), index \div Size(T))

\* Invoking a destroy hook: an empty std::function throws, a pointer into a
\* reallocated buffer is a use of freed memory (no record of the current
\* buffer is destructed), otherwise the record pointed to is destructed.
CallDestroyFunction(s, id, hook) ==
    IF ~hook.installed THEN Fault(s, "terminated")
    ELSE IF hook.stale THEN Fault(s, "stale_hook")
    ELSE Destruct(s, id, hook.slot)

\* Every pointer into the buffer of id dangles once the buffer reallocates.
Invalidate(rows, id) ==
    [e \in DOMAIN rows |->
        IF id \in DOMAIN rows[e] /\ rows[e][id].installed
        THEN [rows[e] EXCEPT ![id].stale = TRUE]
        ELSE rows[e]]

\* T* GetComponent<T>( entity ): the record at &memory[ entity * T::Size ];
\* OutOfBuffer stands for whatever lies behind a pointer past the buffer: no
\* record of the buffer, and no value AddComponent was given.
OutOfBuffer == [val |-> -1, Entity |-> -1, live |-> FALSE]
GetComponent(s, T, entity) ==
    LET records == s.m_ComponentBuffers[Id(T)]
        k == (entity * Size(T)) \div Size(T)
    IN IF k < Len(records) THEN At(records, k) ELSE OutOfBuffer

\* GetComponentsOfType<T>( ): the count of the returned tuple.
GetComponentsOfType(s, T) == s.m_ValidComponents[Id(T)][1]

(***************************************************************************)
(* CSystem: the two listeners its constructor subscribes                   *)
(***************************************************************************)
\* Mutant of OnComponentAdded: the test of componentMask is left out.
OnComponentAdded_Unfiltered(s, entity, entityMask, componentMask) ==
    IF (entityMask \cap s.m_ExclusionMask_Any) # {} THEN s
    ELSE IF (entityMask \cap s.m_ExclusionMask_All) = entityMask THEN s
    ELSE [s EXCEPT !.m_MatchingEntities = insert(@, entity)]

OnComponentAdded(s, entity, entityMask, componentMask) ==
    IF (entityMask \cap s.m_ExclusionMask_Any) # {} THEN s
    ELSE IF (entityMask \cap s.m_ExclusionMask_All) = entityMask THEN s
    ELSE IF (componentMask \cap s.m_InclusionMask) = componentMask
         THEN [s EXCEPT !.m_MatchingEntities = insert(@, entity)]
         ELSE s

OnComponentRemoved(s, entity, entityMask, componentMask) ==
    IF (entityMask \cap s.m_ExclusionMask_Any) # {} THEN s
    ELSE IF (entityMask \cap s.m_ExclusionMask_All) = entityMask THEN s
    ELSE IF (componentMask \cap s.m_InclusionMask) = componentMask
         THEN [s EXCEPT !.m_MatchingEntities = erase(@, entity)]
         ELSE s

\* An invocation of a listener: the listener, its arguments, and the mask
\* the world holds for the entity while the listener runs.
Invocation(listener, kind, s, entity, entityMask, componentMask) ==
    [listener |-> listener, kind |-> kind, entity |-> entity,
     entityMask |-> entityMask, componentMask |-> componentMask,
     worldMask |-> s.m_EntityMasks[entity + 1]]

\* The listeners a client can register: the two lambdas of a CSystem, and a
\* listener of the client's own that leaves the world and the system alone.
TheSystem == "CSystem"
TheProbe == "Probe"

\* fn( entity, entityMask, componentMask )
Invoke(fn, kind, s, entity, entityMask, componentMask) ==
    LET noted == [s EXCEPT !.calls = Append(@, Invocation(fn, kind, s, entity,
                                                          entityMask, componentMask))]
    IN IF fn # TheSystem THEN noted
       ELSE IF kind = "OnComponentAdded"
            THEN OnComponentAdded(noted, entity, entityMask, componentMask)
            ELSE OnComponentRemoved(noted, entity, entityMask, componentMask)

\* Mutant of InvokeEach: only the listener registered first is invoked.
InvokeEach_FirstOnly(fns, kind, s, entity, entityMask, componentMask) ==
    IF fns = <<>> THEN s
    ELSE Invoke(Head(fns), kind, s, entity, entityMask, componentMask)

\* for (auto& fn : fns) fn( entity, entityMask, componentMask )
RECURSIVE InvokeEach(_, _, _, _, _, _)
InvokeEach(fns, kind, s, entity, entityMask, componentMask) ==
    IF fns = <<>> THEN s
    ELSE InvokeEach(Tail(fns), kind,
                    Invoke(Head(fns), kind, s, entity, entityMask, componentMask),
                    entity, entityMask, componentMask)

\* for (auto& fn : m_OnComponentAddedFunctions) fn( entity, entityMask, mask )
DispatchAdded(s, entity, entityMask, componentMask) ==
    InvokeEach(s.m_OnComponentAddedFunctions, "OnComponentAdded", s,
               entity, entityMask, componentMask)

\* Mutant of DispatchRemoved: the listeners run after the bit is cleared.
DispatchRemoved_Cleared(s, entity, entityMask, componentMask) ==
    InvokeEach(s.m_OnComponentRemovedFunctions, "OnComponentRemoved",
               [s EXCEPT !.m_EntityMasks[entity + 1] = @ \ componentMask],
               entity, entityMask \ componentMask, componentMask)

\* Mutant of DispatchRemoved: no listener is invoked.
DispatchRemoved_Silent(s, entity, entityMask, componentMask) == s

\* for (auto& fn : m_OnComponentRemovedFunctions) fn( entity, entityMask, mask )
DispatchRemoved(s, entity, entityMask, componentMask) ==
    InvokeEach(s.m_OnComponentRemovedFunctions, "OnComponentRemoved", s,
               entity, entityMask, componentMask)

(***************************************************************************)
(* CWorld                                                                  *)
(***************************************************************************)
\* std::cout << line << std::endl
NotAlive == "ATLAS_ECS :: Entity is Not Alive."
AlreadyContains == "ATLAS_ECS :: Entity Already Contains Component."
DoesntContain == "ATLAS_ECS :: Entity Doesn't Contain Component."
Say(s, line) == [s EXCEPT !.cout = Append(@, line)]

\* Mutants of Contains: the test never succeeds; the test always succeeds.
Contains_Never(mask, filter) == FALSE
Contains_Always(mask, filter) == TRUE

\* ( mask & filter ) == filter
Contains(mask, filter) == (mask \cap filter) = filter

\* m_ValidComponents and m_ComponentBuffers have MAX_COMPONENTS entries, of
\* which the model keeps those of the registered ids.
MAX_COMPONENTS == 1024
\* uint32_t arithmetic.  A value of 2^31 or more is written as the negative
\* number congruent to it modulo 2^32, so 0 - 1 = 0xFFFFFFFF is written -1.
\* Mutant of Inc32: the value is written back unchanged.
Inc32_Unchanged(x) == x
Inc32(x) == x + 1
\* Mutant of Dec32: the count is written back unchanged.
Dec32_Unchanged(x) == x
\* Mutant of Dec32: the count drops by two.
Dec32_Twice(x) == x - 2
Dec32(x) == x - 1

\* CWorld::CWorld( initialEntities ).  The members of the system that will
\* subscribe to the world are part of the state from the start.
World(initialEntities) ==
    [m_LargestEntityIndex |-> 0,
     m_Entities |-> reserve(EmptySparseSet, initialEntities),
     m_DeletedEntities |-> <<>>,
     m_EntityMasks |-> <<>>,
     masksCapacity |-> initialEntities,
     m_ContainedComponentIDs |-> [e \in 1..initialEntities |-> <<>>],
     m_ComponentDestroyFunctions |-> [e \in 1..initialEntities |-> EmptyHookRow],
     m_ValidComponents |-> [id \in ComponentIds |-> <<0, 0>>],
     m_ComponentBuffers |-> [id \in ComponentIds |-> <<>>],
     m_MatchingEntities |-> EmptySparseSet,
     m_InclusionMask |-> {},
     m_ExclusionMask_Any |-> {},
     m_ExclusionMask_All |-> {},
     m_OnComponentAddedFunctions |-> <<>>,
     m_OnComponentRemovedFunctions |-> <<>>,
     faults |-> {},
     calls |-> <<>>,
     hookCalls |-> <<>>,
     cout |-> <<>>]

\* AddOnComponentAddedFunction( fn ), AddOnComponentRemovedFunction( fn )
AddOnComponentAddedFunction(s, fn) ==
    [s EXCEPT !.m_OnComponentAddedFunctions = Append(@, fn)]
AddOnComponentRemovedFunction(s, fn) ==
    [s EXCEPT !.m_OnComponentRemovedFunctions = Append(@, fn)]

\* CSystem::CSystem( world ) followed by the derived constructor's calls of
\* MatchEntitiesWith, ExcludeEntitiesWithAnyOf and ExcludeEntitiesWithAllOf.
CSystem(s, inclusion, excludeAny, excludeAll) ==
    [AddOnComponentRemovedFunction(AddOnComponentAddedFunction(s, TheSystem), TheSystem)
        EXCEPT !.m_InclusionMask = @ \cup inclusion,
               !.m_ExclusionMask_Any = @ \cup excludeAny,
               !.m_ExclusionMask_All = @ \cup excludeAll]

\* A world and the system constructed on it.
CWorld(initialEntities, inclusion, excludeAny, excludeAll) ==
    CSystem(World(initialEntities), inclusion, excludeAny, excludeAll)

\* Capacity of a std::vector after a push_back that finds it full: the growth
\* factor is the library's choice (2 in libstdc++ and libc++, 1.5 in MSVC).
GrowCapacity(cap, factor) ==
    IF factor = "double" THEN (IF cap = 0 THEN 1 ELSE 2 * cap)
    ELSE (IF cap + (cap \div 2) > cap THEN cap + (cap \div 2) ELSE cap + 1)
GrowthFactors == {"double", "half"}

Max(a, b) == IF a >= b THEN a ELSE b

\* Entity CreateEntity( ): the state after the call and the id returned.
CreateEntity(s, factor) ==
    IF Len(s.m_DeletedEntities) <= 0
    THEN LET pushed == [s EXCEPT
                 !.m_EntityMasks = Append(@, {}),
                 !.masksCapacity = IF Len(s.m_EntityMasks) < @ THEN @
                                   ELSE GrowCapacity(@, factor),
                 !.m_LargestEntityIndex = Inc32(@)]
             entity == s.m_LargestEntityIndex
             sized == IF entity >= pushed.masksCapacity
                      THEN [pushed EXCEPT
                               !.m_EntityMasks = resize(@, entity * 2, {}),
                               !.masksCapacity = Max(@, entity * 2),
                               !.m_ContainedComponentIDs = resize(@, entity * 2, <<>>),
                               !.m_ComponentDestroyFunctions = resize(@, entity * 2, <<>>)]
                      ELSE pushed
         IN [s |-> [sized EXCEPT !.m_Entities = insert(@, entity)],
             entity |-> entity]
    ELSE LET entity == Head(s.m_DeletedEntities)
         IN [s |-> [s EXCEPT !.m_DeletedEntities = Tail(@),
                             !.m_Entities = insert(@, entity)],
             entity |-> entity]

MaskInRange(s, entity) == entity < Len(s.m_EntityMasks)
RowInRange(s, entity) == entity < Len(s.m_ContainedComponentIDs)
HookInRange(s, entity, id) ==
    /\ entity < Len(s.m_ComponentDestroyFunctions)
    /\ id \in DOMAIN At(s.m_ComponentDestroyFunctions, entity)

\* Mutant of SetValidComponents: the pair is inserted before position id,
\* as by m_ValidComponents.insert( m_ValidComponents.begin( ) + id, pair ),
\* and the pairs from id on move up by one.
SetValidComponents_Inserted(counts, id, pair) ==
    [c \in DOMAIN counts |->
        IF c < id THEN counts[c] ELSE IF c = id THEN pair ELSE counts[c - 1]]

\* m_ValidComponents[ id ] = newPair
SetValidComponents(counts, id, pair) == [counts EXCEPT ![id] = pair]

\* AddComponent_Single<T>( entity, component ).  An index past the end of a
\* per-entity table is undefined behaviour; the write then lands outside the
\* table and the table keeps its contents.
AddComponent_Single(s, entity, T, component) ==
    IF ~MaskInRange(s, entity) THEN Fault(s, "table_range")
    ELSE IF Contains(At(s.m_EntityMasks, entity), Filter(T))
         THEN Say(s, AlreadyContains)
    ELSE
      LET id == Id(T)
          created == ComponentCreate(s.m_ComponentBuffers[id], entity, component, T)
          rows == IF created.realloc
                  THEN Invalidate(s.m_ComponentDestroyFunctions, id)
                  ELSE s.m_ComponentDestroyFunctions
          s1 == [s EXCEPT
                   !.m_ComponentBuffers[id] = created.records,
                   !.m_ContainedComponentIDs =
                       IF RowInRange(s, entity)
                       THEN Put(@, entity, <<id>> \o At(@, entity)) ELSE @,
                   !.m_ComponentDestroyFunctions =
                       IF HookInRange(s, entity, id)
                       THEN Put(rows, entity,
                                [At(rows, entity) EXCEPT ![id] = HookTo(created.slot)])
                       ELSE rows,
                   !.m_ValidComponents =
                       SetValidComponents(@, id, <<Inc32(@[id][1]), Size(T)>>),
                   !.m_EntityMasks = Put(@, entity, At(@, entity) \cup Filter(T)),
                   !.faults = @ \cup (IF created.overwrote THEN {"overwrite"} ELSE {})
                                \cup (IF RowInRange(s, entity) /\ HookInRange(s, entity, id)
                                      THEN {} ELSE {"table_range"})]
          entityMask == At(s1.m_EntityMasks, entity)
      IN DispatchAdded(s1, entity, entityMask, Filter(T))

\* Mutant of AddComponent_Recurse: the recursion stops after the first add.
AddComponent_Recurse_FirstOnly(s, entity, components) ==
    IF components = <<>> THEN s
    ELSE AddComponent_Single(s, entity, Head(components)[1], Head(components)[2])

\* AddComponent_Recurse( entity, first, rest... ); components is the pack, a
\* sequence of <<type, value>>.
RECURSIVE AddComponent_Recurse(_, _, _)
AddComponent_Recurse(s, entity, components) ==
    IF components = <<>> THEN s
    ELSE AddComponent_Recurse(
             AddComponent_Single(s, entity, Head(components)[1], Head(components)[2]),
             entity, Tail(components))

\* Entity CreateEntity( Components... components )
CreateEntityWith(s, factor, components) ==
    LET made == CreateEntity(s, factor)
        entity == made.entity
        cleared == [made.s EXCEPT !.m_EntityMasks = Put(@, entity, {})]
    IN [s |-> AddComponent_Recurse(cleared, entity, components), entity |-> entity]

\* Mutant of Remove: the id stays in the list.
Remove_Nothing(list, id) == list

\* std::forward_list::remove: erases every element equal to id.
Remove(list, id) == SelectSeq(list, LAMBDA x : x # id)

\* RemoveComponent<T>( entity )
RemoveComponent(s, entity, T) ==
    IF ~MaskInRange(s, entity) THEN Fault(s, "table_range")
    ELSE IF ~Contains(At(s.m_EntityMasks, entity), Filter(T))
         THEN Say(s, DoesntContain)
    ELSE
      LET id == Id(T)
          index == entity * Size(T)
          freed == ComponentFree(s, T, index)
          s1 == [freed EXCEPT
                   !.m_ContainedComponentIDs =
                       IF RowInRange(s, entity)
                       THEN Put(@, entity, Remove(At(@, entity), id)) ELSE @,
                   !.m_ValidComponents =
                       SetValidComponents(@, id, <<Dec32(@[id][1]), Size(T)>>),
                   !.faults = @ \cup (IF RowInRange(s, entity) THEN {} ELSE {"table_range"})]
          entityMask == At(s1.m_EntityMasks, entity)
          s2 == DispatchRemoved(s1, entity, entityMask, Filter(T))
      IN [s2 EXCEPT !.m_EntityMasks = Put(@, entity, At(@, entity) \ Filter(T))]

\* The loop of DestroyEntity over the ids of m_ContainedComponentIDs[ entity ].
\* One round of the loop: the count of id drops and the hook of
\* ( entity, id ) is invoked.
DestroyComponent(s, entity, id) ==
    LET counted == [s EXCEPT !.m_ValidComponents[id] =
                                 <<Dec32(@[1]), @[2]>>]
        hook == IF HookInRange(s, entity, id)
                THEN At(s.m_ComponentDestroyFunctions, entity)[id]
                ELSE NoHook
        noted == [counted EXCEPT !.hookCalls =
                      Append(@, [entity |-> entity, id |-> id, hook |-> hook])]
    IN CallDestroyFunction(noted, id, hook)

\* Mutant of DestroyComponents: the loop ends after its first round.
DestroyComponents_FirstOnly(s, entity, componentIDs) ==
    IF componentIDs = <<>> THEN s
    ELSE DestroyComponent(s, entity, Head(componentIDs))

RECURSIVE DestroyComponents(_, _, _)
DestroyComponents(s, entity, componentIDs) ==
    IF componentIDs = <<>> THEN s
    ELSE DestroyComponents(DestroyComponent(s, entity, Head(componentIDs)),
                           entity, Tail(componentIDs))

\* DestroyEntity( entity ) past its test of m_Entities.
DestroyAlive(s, entity) ==
      LET s1 == [s EXCEPT !.m_DeletedEntities = <<entity>> \o @,
                          !.m_Entities = erase(@, entity)]
          componentIDs == IF RowInRange(s, entity)
                          THEN At(s.m_ContainedComponentIDs, entity) ELSE <<>>
          s2 == DestroyComponents(s1, entity, componentIDs)
          s3 == [s2 EXCEPT
                   !.m_ContainedComponentIDs =
                       IF RowInRange(s, entity) THEN Put(@, entity, <<>>) ELSE @,
                   !.faults = @ \cup (IF RowInRange(s, entity) THEN {} ELSE {"table_range"})]
          mask == IF MaskInRange(s3, entity) THEN At(s3.m_EntityMasks, entity) ELSE {}
          s4 == IF MaskInRange(s3, entity)
                THEN DispatchRemoved(s3, entity, mask, mask)
                ELSE Fault(s3, "table_range")
      IN IF MaskInRange(s4, entity)
         THEN [s4 EXCEPT !.m_EntityMasks = Put(@, entity, {})]
         ELSE s4

\* Mutant of DestroyEntity: m_Entities is not consulted.
DestroyEntity_Unguarded(s, entity) == DestroyAlive(s, entity)

\* DestroyEntity( entity )
DestroyEntity(s, entity) ==
    IF ~has(s.m_Entities, entity) THEN Say(s, NotAlive)
    ELSE DestroyAlive(s, entity)

(***************************************************************************)
(* The client: one step per public call                                    *)
(***************************************************************************)
\* Parameter packs: sequences of <<type, value>> of length 1..maxPack.
RECURSIVE PacksOfLength(_, _, _)
PacksOfLength(types, values, n) ==
    IF n = 0 THEN {<<>>}
    ELSE {<<<<T, v>>>> \o rest :
             T \in types, v \in values, rest \in PacksOfLength(types, values, n - 1)}
PacksOver(types, values, maxPack) ==
    UNION {PacksOfLength(types, values, n) : n \in 1..maxPack}

\* What `returned` holds after a call that returns void, or while nothing is
\* recorded.
NoEntity == -1

WorldAs(w, record) ==
    /\ recording = record
    /\ sparseSet = EmptySparseSet /\ inserted = <<>> /\ erased = FALSE
    /\ m_LargestEntityIndex = w.m_LargestEntityIndex
    /\ m_Entities = w.m_Entities
    /\ m_DeletedEntities = w.m_DeletedEntities
    /\ m_EntityMasks = w.m_EntityMasks
    /\ masksCapacity = w.masksCapacity
    /\ m_ContainedComponentIDs = w.m_ContainedComponentIDs
    /\ m_ComponentDestroyFunctions = w.m_ComponentDestroyFunctions
    /\ m_ValidComponents = w.m_ValidComponents
    /\ m_ComponentBuffers = w.m_ComponentBuffers
    /\ m_MatchingEntities = w.m_MatchingEntities
    /\ m_InclusionMask = w.m_InclusionMask
    /\ m_ExclusionMask_Any = w.m_ExclusionMask_Any
    /\ m_ExclusionMask_All = w.m_ExclusionMask_All
    /\ m_OnComponentAddedFunctions = w.m_OnComponentAddedFunctions
    /\ m_OnComponentRemovedFunctions = w.m_OnComponentRemovedFunctions
    /\ faults = w.faults
    /\ calls = w.calls
    /\ hookCalls = w.hookCalls
    /\ cout = w.cout
    /\ returned = NoEntity
    /\ handedOut = {}
    /\ freedOrder = <<>>
    /\ subscriptions =
          [i \in 1..Len(w.m_OnComponentAddedFunctions) |->
              <<"OnComponentAdded", w.m_OnComponentAddedFunctions[i]>>]
          \o [i \in 1..Len(w.m_OnComponentRemovedFunctions) |->
              <<"OnComponentRemoved", w.m_OnComponentRemovedFunctions[i]>>]

\* A world constructed after every static of the registry was initialised.
InitAs(w, record) == registry = InstantiatedInOrder /\ WorldAs(w, record)

\* The state a call starts from; its faults are collected apart from those
\* of earlier calls, and calls and cout hold what the call itself does.
Fresh == [State EXCEPT !.faults = {}, !.calls = <<>>, !.hookCalls = <<>>, !.cout = <<>>]

\* A call that executed undefined behaviour either returns, with the effects
\* modelled above, or the process is terminated in it.  Nothing is modelled
\* of an execution after its first undefined behaviour.
Outcomes(result) ==
    IF result.faults \cap UndefinedBehaviour # {} THEN {"returns", "terminated"}
    ELSE {"returns"}

Running == faults \cap (UndefinedBehaviour \cup {"terminated"}) = {}
Returns(result) == Commit([result EXCEPT !.faults = @ \cup faults])

Perform(result) ==
    /\ Running
    /\ \E outcome \in Outcomes(result) :
          IF outcome = "returns"
          THEN Returns(result)
          ELSE Commit([State EXCEPT !.faults =
                          @ \cup result.faults \cup {"terminated"}])

\* The counter is capped by the model's bound.
CanCreate(maxEntities) ==
    Len(m_DeletedEntities) > 0 \/ m_LargestEntityIndex < maxEntities
Factors == IF Len(m_EntityMasks) < masksCapacity THEN {"double"} ELSE GrowthFactors

Live == Members(m_Entities)

\* The client's bookkeeping of the ids it holds, kept from what its calls
\* return and from the arguments it passes, not from the world's state.
Returned == "terminated" \notin faults'

GotEntity(entity) ==
    /\ UNCHANGED subscriptions
    /\ returned' = IF Returned /\ recording THEN entity ELSE NoEntity
    /\ handedOut' = IF Returned THEN handedOut \cup {entity} ELSE handedOut
    /\ freedOrder' = IF Returned THEN Remove(freedOrder, entity) ELSE freedOrder

GaveUpEntity(entity) ==
    /\ UNCHANGED subscriptions
    /\ returned' = NoEntity
    /\ handedOut' = IF Returned THEN handedOut \ {entity} ELSE handedOut
    /\ freedOrder' = IF Returned /\ entity \in handedOut
                     THEN Append(freedOrder, entity) ELSE freedOrder

DoCreateEntity(maxEntities) ==
    /\ CanCreate(maxEntities)
    /\ \E factor \in Factors :
          LET made == CreateEntity(Fresh, factor)
          IN Perform(made.s) /\ GotEntity(made.entity)

DoCreateEntityWith(maxEntities, packs) ==
    /\ CanCreate(maxEntities)
    /\ \E factor \in Factors, components \in packs :
          LET made == CreateEntityWith(Fresh, factor, components)
          IN Perform(made.s) /\ GotEntity(made.entity)

DoAddComponent(entity, packs) ==
    /\ \E components \in packs : Perform(AddComponent_Recurse(Fresh, entity, components))
    /\ returned' = NoEntity
    /\ UNCHANGED <<handedOut, freedOrder, subscriptions>>

DoRemoveComponent(entity, types) ==
    /\ \E T \in types : Perform(RemoveComponent(Fresh, entity, T))
    /\ returned' = NoEntity
    /\ UNCHANGED <<handedOut, freedOrder, subscriptions>>

DoDestroyEntity(entity) ==
    /\ Perform(DestroyEntity(Fresh, entity))
    /\ GaveUpEntity(entity)

\* A client that adds to, removes from and destroys live entities.
Client(maxEntities, types, packs) ==
    \/ DoCreateEntity(maxEntities)
    \/ DoCreateEntityWith(maxEntities, packs)
    \/ \E entity \in Live : DoAddComponent(entity, packs)
    \/ \E entity \in Live : DoRemoveComponent(entity, types)
    \/ \E entity \in Live : DoDestroyEntity(entity)

(***************************************************************************)
(* Spec: a world constructed with room for every entity it will hold, one  *)
(* system, and a client using two of the component types.                  *)
(***************************************************************************)
ClientTypes == {"FPositionComponent", "FNameComponent"}
Packs == PacksOver(ClientTypes, Values, MaxPack)

\* Filters the system's constructor may declare: <<inclusion, exclude-any,
\* exclude-all>>.  The first has the shape of CTestSystem's (one type
\* matched, another excluded), the third that of the README's system.
SystemFilters ==
    LET P == Filter("FPositionComponent")
        N == Filter("FNameComponent")
    IN {<<P, N, {}>>, <<P, {}, {}>>, <<P \cup N, {}, {}>>, <<P, {}, N>>}

Init == \E f \in SystemFilters : InitAs(CWorld(MaxEntities, f[1], f[2], f[3]), FALSE)
Next == Client(MaxEntities, ClientTypes, Packs)
Spec == Init /\ [][Next]_vars

(***************************************************************************)
(* SpecStore: one component type and more entities, so that a store grows  *)
(* more than once and entities receive the type in every order.            *)
(***************************************************************************)
StoreEntities == 3
StoreTypes == {"FPositionComponent"}
StorePacks == PacksOver(StoreTypes, Values, 1)

InitStore == InitAs(CWorld(StoreEntities, Filter("FPositionComponent"), {}, {}), FALSE)
NextStore == Client(StoreEntities, StoreTypes, StorePacks)
SpecStore == InitStore /\ [][NextStore]_vars

(***************************************************************************)
(* SpecIds: the lifetime of entity ids.  The client also passes ids of     *)
(* entities it has destroyed to RemoveComponent, and ids that are dead or  *)
(* were never created to DestroyEntity; what each call prints and which    *)
(* listeners it invokes is recorded.                                       *)
(***************************************************************************)
IdEntities == 2
IdTypes == {"FPositionComponent", "FNameComponent"}
IdPacks == PacksOver(IdTypes, Values, 1)

ClientOfIds(maxEntities, types, packs) ==
    \/ DoCreateEntity(maxEntities)
    \/ DoCreateEntityWith(maxEntities, packs)
    \/ \E entity \in Live : DoAddComponent(entity, packs)
    \/ \E entity \in 0..(Len(m_EntityMasks) - 1) : DoRemoveComponent(entity, types)
    \/ \E entity \in 0..maxEntities : DoDestroyEntity(entity)

InitIds == InitAs(CWorld(IdEntities, Filter("FPositionComponent"), {}, {}), TRUE)
NextIds == ClientOfIds(IdEntities, IdTypes, IdPacks)
SpecIds == InitIds /\ [][NextIds]_vars

(***************************************************************************)
(* SpecDead: a client that also passes the ids of entities it has          *)
(* destroyed, and that were not recycled yet, to AddComponent.             *)
(***************************************************************************)
DeadEntities == 2
DeadTypes == {"FPositionComponent"}
DeadPacks == PacksOver(DeadTypes, Values, 1)

\* The valid counts are capped by the model's bound.
ClientOfDead(maxEntities, types, packs) ==
    \/ Client(maxEntities, types, packs)
    \/ \E entity \in 0..(Len(m_EntityMasks) - 1) :
          /\ entity \notin Live
          /\ \A T \in types : m_ValidComponents[Id(T)][1] < maxEntities
          /\ DoAddComponent(entity, packs)

InitDead == InitAs(CWorld(DeadEntities, Filter("FPositionComponent"), {}, {}), TRUE)
NextDead == ClientOfDead(DeadEntities, DeadTypes, DeadPacks)
SpecDead == InitDead /\ [][NextDead]_vars

(***************************************************************************)
(* SpecListeners: a world on which the client constructs the system and    *)
(* registers a listener of its own for on-add and for on-remove events, in *)
(* any order and at any time between its other calls.                      *)
(***************************************************************************)
ListenerEntities == 1
ListenerPacks == PacksOver(IdTypes, Values, MaxPack)

DoSubscribe(kind, fn) ==
    /\ <<kind, fn>> \notin {subscriptions[i] : i \in 1..Len(subscriptions)}
    /\ Perform(IF kind = "OnComponentAdded"
               THEN AddOnComponentAddedFunction(Fresh, fn)
               ELSE AddOnComponentRemovedFunction(Fresh, fn))
    /\ subscriptions' = Append(subscriptions, <<kind, fn>>)
    /\ returned' = NoEntity
    /\ UNCHANGED <<handedOut, freedOrder>>

DoConstructSystem(inclusion, excludeAny, excludeAll) ==
    /\ \A i \in 1..Len(subscriptions) : subscriptions[i][2] # TheSystem
    /\ Perform(CSystem(Fresh, inclusion, excludeAny, excludeAll))
    /\ subscriptions' = subscriptions \o <<<<"OnComponentAdded", TheSystem>>,
                                            <<"OnComponentRemoved", TheSystem>>>>
    /\ returned' = NoEntity
    /\ UNCHANGED <<handedOut, freedOrder>>

InitListeners == InitAs(World(ListenerEntities), TRUE)
NextListeners ==
    \/ Client(ListenerEntities, IdTypes, ListenerPacks)
    \/ \E kind \in {"OnComponentAdded", "OnComponentRemoved"} : DoSubscribe(kind, TheProbe)
    \/ DoConstructSystem(Filter("FPositionComponent"), {}, {})
SpecListeners == InitListeners /\ [][NextListeners]_vars

(***************************************************************************)
(* Steps: a public call on a live entity that returns                      *)
(***************************************************************************)
AddReturns(entity, T, v) ==
    /\ Running /\ entity \in Live
    /\ Returns(AddComponent_Recurse(Fresh, entity, <<<<T, v>>>>))

RemoveReturns(entity, T) ==
    /\ Running /\ entity \in Live
    /\ Returns(RemoveComponent(Fresh, entity, T))

DestroyReturns(entity) ==
    /\ Running /\ entity \in Live
    /\ Returns(DestroyEntity(Fresh, entity))

(***************************************************************************)
(* Views of the state used by the properties                               *)
(***************************************************************************)
Created == 0..(Len(m_EntityMasks) - 1)
EntityMask(e) == At(m_EntityMasks, e)
ContainedIds(e) ==
    {At(m_ContainedComponentIDs, e)[i] : i \in 1..Len(At(m_ContainedComponentIDs, e))}
HookInstalled(e, id) == At(m_ComponentDestroyFunctions, e)[id].installed
ValidCount(id) == m_ValidComponents[id][1]
Matching == Members(m_MatchingEntities)

(***************************************************************************)
(* C1..C10                                                                 *)
(***************************************************************************)
\* C1: after every public operation, for every live entity e and every
\* component id c, bit c of m_EntityMasks[e] is set iff c is in
\* m_ContainedComponentIDs[e].
C1_MaskIffContained ==
    \A e \in Live : \A id \in ComponentIds :
        (id \in EntityMask(e)) <=> (id \in ContainedIds(e))

\* A live entity carries one component and has had another removed.
C1_Witness ==
    \E e \in Live : \E id1, id2 \in ComponentIds :
        /\ id1 \in EntityMask(e) /\ id1 \in ContainedIds(e)
        /\ id2 \notin EntityMask(e) /\ HookInstalled(e, id2)

PassesFilter(e) ==
    /\ (EntityMask(e) \cap m_ExclusionMask_Any) = {}
    /\ (m_ExclusionMask_All = {}
           \/ (EntityMask(e) \cap m_ExclusionMask_All) # EntityMask(e))
    /\ (EntityMask(e) \cap m_InclusionMask) = m_InclusionMask

\* C3: after every public operation the system's matching set equals
\* { e live : (mask & Xa) == 0 and (Xe == 0 or (mask & Xe) != mask) and
\* (mask & I) == I }.
C3_MatchingIsFilter == Matching = {e \in Live : PassesFilter(e)}

\* C4: after DestroyEntity( e ) on a live entity, whatever components it
\* carries, e is absent from the system's matching set.
C4_DestroyedLeavesMatching ==
    [][\A e \in Created : DestroyReturns(e) => e \notin Matching']_vars

\* C5: no entity of the matching set carries a component of the exclude-any
\* mask.
C5_NoExcludedInMatching ==
    \A e \in Matching : (EntityMask(e) \cap m_ExclusionMask_Any) = {}

\* C6: when RemoveComponent removes the last exclude-any component of a live
\* entity whose remaining mask contains the inclusion mask, the entity is in
\* the matching set afterwards.
C6_MatchesAgainAfterRemove ==
    [][\A e \in Created : \A T \in Types :
          (/\ RemoveReturns(e, T)
           /\ Id(T) \in EntityMask(e)
           /\ Filter(T) \subseteq m_ExclusionMask_Any
           /\ (EntityMask(e)' \cap m_ExclusionMask_Any) = {}
           /\ m_InclusionMask \subseteq EntityMask(e)')
          => e \in Matching']_vars

\* C7: after a successful AddComponent<T>( e, v ) on a live entity, whatever
\* its id and the order in which entities received T, the record is in slot
\* e of the store of T: GetComponent<T>( e ) returns v.
C7_AddStoresInSlot ==
    [][\A e \in Created : \A T \in Types : \A v \in Values :
          (AddReturns(e, T, v) /\ Id(T) \notin EntityMask(e))
          => GetComponent(State', T, e) = Object(v, e)]_vars

\* C8: for an entity e that has T, AddComponent<T> on another entity leaves
\* the value GetComponent<T>( e ) returns unchanged.
C8_AddLeavesOthers ==
    [][\A e \in Live : \A other \in Created \ {e} : \A T \in Types : \A v \in Values :
          (AddReturns(other, T, v) /\ Id(T) \in EntityMask(e))
          => GetComponent(State', T, e) = GetComponent(State, T, e)]_vars

\* The objects alive in the store of id: <<record index, entity>>.
Alive(id) ==
    {<<k, At(m_ComponentBuffers[id], k).Entity>> :
        k \in {j \in 0..(Len(m_ComponentBuffers[id]) - 1) :
                  At(m_ComponentBuffers[id], j).live}}
AliveFor(id, e) == {o \in Alive(id) : o[2] = e}

\* C9: every component instance constructed by AddComponent is destructed
\* exactly once, by RemoveComponent or by the DestroyEntity of its entity: no
\* destructor runs where no object is alive, no object is lost without its
\* destructor, and the objects alive are those of the attached components.
C9_DestructedExactlyOnce ==
    /\ faults \cap {"no_object", "stale_hook", "overwrite"} = {}
    /\ \A id \in ComponentIds : \A e \in Created :
          Cardinality(AliveFor(id, e)) = (IF id \in EntityMask(e) THEN 1 ELSE 0)

\* C10: after DestroyEntity( e ) on a live entity its mask is all-zero, its
\* id list is empty, no store holds a live record of e, and the valid count
\* of every type e carried has decreased by exactly one.
C10_DestroyClearsEntity ==
    [][\A e \in Created :
          DestroyReturns(e) =>
             /\ EntityMask(e)' = {}
             /\ ContainedIds(e)' = {}
             /\ \A id \in ComponentIds :
                   /\ AliveFor(id, e)' = {}
                   /\ ValidCount(id)' =
                         ValidCount(id) - (IF id \in EntityMask(e) THEN 1 ELSE 0)]_vars

(***************************************************************************)
(* C11..C20                                                                *)
(***************************************************************************)
\* The ids of a deque or list.
Range(seq) == {seq[i] : i \in 1..Len(seq)}

\* A step in which CreateEntity( ) or CreateEntity( components... ) returned
\* entity (recorded runs).
CreateReturned(entity) == recording /\ returned' = entity

\* C11: after any sequence of CreateEntity and DestroyEntity calls the
\* live-entity sparse set equals the set of ids CreateEntity returned and
\* that were not destroyed since.
C11_LiveIsHandedOut == Live = handedOut

\* One id is live, another was destroyed, and the last call was a
\* DestroyEntity of an id that is not live.
C11_Witness ==
    /\ handedOut # {} /\ freedOrder # <<>>
    /\ cout = <<NotAlive>>

\* C12: the live-entity set and the recycled-id deque are disjoint, the deque
\* holds no id twice, and CreateEntity never returns an id that is live.
C12_IdsUnique ==
    /\ [](/\ Live \cap Range(m_DeletedEntities) = {}
          /\ Cardinality(Range(m_DeletedEntities)) = Len(m_DeletedEntities))
    /\ [][\A e \in 0..IdEntities : CreateReturned(e) => e \notin Live]_vars

\* An id was recycled while another id was live.
C12_Witness ==
    /\ returned # NoEntity /\ returned < m_LargestEntityIndex - 1
    /\ Cardinality(Live) = 2

\* C13: freed ids are recycled first in, first out: CreateEntity returns the
\* id destroyed earliest among those not handed out again, so after a and
\* then b were destroyed the next create returns a and the one after it b.
C13_RecycledFifo ==
    [][\A e \in 0..IdEntities :
          (CreateReturned(e) /\ freedOrder # <<>>) => e = Head(freedOrder)]_vars

\* C14: CreateEntity returns a recycled id whenever ids are waiting to be
\* recycled (so create, destroy, create returns the same id), and otherwise
\* the next counter value: fresh ids are 0, 1, 2, ...
C14_RecycleElseFresh ==
    [][\A e \in 0..IdEntities :
          CreateReturned(e) =>
             /\ Range(freedOrder) = Range(m_DeletedEntities)
             /\ IF freedOrder # <<>>
                THEN e \in Range(freedOrder)
                ELSE e = Cardinality(handedOut) /\ e = m_LargestEntityIndex]_vars

\* The last create returned a recycled id although the counter had moved on.
C14_Witness ==
    /\ returned = 0 /\ m_LargestEntityIndex = 2
    /\ freedOrder = <<>> /\ handedOut = {0, 1}

\* The members of the world and of its system.
world == <<m_LargestEntityIndex, m_Entities, m_DeletedEntities, m_EntityMasks,
           masksCapacity, m_ContainedComponentIDs, m_ComponentDestroyFunctions,
           m_ValidComponents, m_ComponentBuffers, m_MatchingEntities,
           m_InclusionMask, m_ExclusionMask_Any, m_ExclusionMask_All,
           m_OnComponentAddedFunctions, m_OnComponentRemovedFunctions>>

\* Steps: RemoveComponent on any created id, DestroyEntity on any id.
RemoveCalled(entity, T) ==
    /\ Running /\ entity \in Created
    /\ Returns(RemoveComponent(Fresh, entity, T))

DestroyCalled(entity) ==
    /\ Running
    /\ Returns(DestroyEntity(Fresh, entity))

\* C15: AddComponent<T>( e, v ) on a live entity that already has T changes
\* no state (mask, id list, valid count, the stored value of T for e, the
\* matching set) and invokes no on-add listener; the state being the same,
\* so does every repetition.
C15_AddAgainIsNoOp ==
    [][\A e \in Created : \A T \in Types : \A v \in Values :
          (AddReturns(e, T, v) /\ Id(T) \in EntityMask(e))
          => /\ UNCHANGED world
             /\ faults' = faults
             /\ GetComponent(State', T, e) = GetComponent(State, T, e)
             /\ calls' = <<>>]_vars

\* The last call was an AddComponent on a live entity that has the type.
C15_Witness ==
    /\ cout = <<AlreadyContains>> /\ returned = NoEntity
    /\ calls = <<>>
    /\ \E e \in Live : EntityMask(e) # {}

\* C16: RemoveComponent<T>( e ) when bit T of the mask of e is not set, e
\* live or already destroyed, changes no state of the world, runs no
\* destructor and invokes no on-remove listener; so does every repetition.
C16_RemoveAbsentIsNoOp ==
    [][\A e \in Created : \A T \in Types :
          (RemoveCalled(e, T) /\ Id(T) \notin EntityMask(e))
          => /\ UNCHANGED world
             /\ faults' = faults
             /\ calls' = <<>>]_vars

\* The last call was a RemoveComponent on an entity that had been destroyed.
C16_Witness ==
    /\ cout = <<DoesntContain>>
    /\ Live = {} /\ m_DeletedEntities # <<>>
    /\ \E e \in Range(m_DeletedEntities) : \E id \in ComponentIds : HookInstalled(e, id)

\* C17: DestroyEntity( e ) on an id that is not live, already destroyed or
\* never created, changes no state (deque, live set, masks, id lists, valid
\* counts) and invokes no listener; so does every repetition.
C17_DestroyDeadIsNoOp ==
    [][\A e \in 0..IdEntities :
          (DestroyCalled(e) /\ e \notin Live)
          => /\ UNCHANGED world
             /\ faults' = faults
             /\ calls' = <<>>]_vars

\* The last call was a DestroyEntity of a dead id while another id is live.
C17_Witness ==
    /\ cout = <<NotAlive>> /\ calls = <<>>
    /\ m_DeletedEntities # <<>> /\ Live # {}

\* AddComponent<T>( e, v ) followed by RemoveComponent<T>( e ).
AddThenRemove(s, e, T, v) == RemoveComponent(AddComponent_Single(s, e, T, v), e, T)

\* C18 as stated: from any reachable state and for any live entity e, the
\* pair AddComponent<T>( e, v ); RemoveComponent<T>( e ) leaves the mask of e
\* and the valid count of T as they were.
C18_PairRestores ==
    Running =>
      \A e \in Live : \A T \in Types : \A v \in Values :
         LET after == AddThenRemove(Fresh, e, T, v)
         IN /\ At(after.m_EntityMasks, e) = EntityMask(e)
            /\ after.m_ValidComponents[Id(T)][1] = ValidCount(Id(T))

\* C18 amended: the same for a live entity e that does not have T.
C18_PairRestoresWhenAbsent ==
    Running =>
      \A e \in Live : \A T \in Types : \A v \in Values :
         Id(T) \notin EntityMask(e) =>
            LET after == AddThenRemove(Fresh, e, T, v)
            IN /\ At(after.m_EntityMasks, e) = EntityMask(e)
               /\ after.m_ValidComponents[Id(T)][1] = ValidCount(Id(T))

\* A live entity lacks a type another entity has, and the pair's add sets
\* the bit and counts the component before its remove takes both back.
C18_Witness ==
    /\ Running
    /\ \E e \in Live : \E T \in Types : \E v \in Values :
          LET added == AddComponent_Single(Fresh, e, T, v)
          IN /\ Id(T) \notin EntityMask(e) /\ EntityMask(e) # {}
             /\ ValidCount(Id(T)) = 1
             /\ Id(T) \in At(added.m_EntityMasks, e)
             /\ added.m_ValidComponents[Id(T)][1] = 2

\* C19: after every public operation, for every live entity e and every
\* component type c, a destroy hook is installed at
\* m_ComponentDestroyFunctions[e][c] iff bit c of the mask of e is set.
C19_HookIffMask ==
    \A e \in Live : \A id \in ComponentIds :
        HookInstalled(e, id) <=> (id \in EntityMask(e))

Registered(kind) ==
    LET picked == SelectSeq(subscriptions, LAMBDA x : x[1] = kind)
    IN [i \in 1..Len(picked) |-> picked[i][2]]

\* C21: DestroyEntity( e ) on a live entity invokes each on-remove listener
\* exactly once, with ( e, mask, mask ) where mask is the mask of e before
\* the call, and makes no other notification: none per component, no on-add.
C21_DestroyNotifiesOnce ==
    [][\A e \in Created :
          DestroyReturns(e) =>
             calls' = [i \in 1..Len(Registered("OnComponentRemoved")) |->
                         [listener |-> Registered("OnComponentRemoved")[i],
                          kind |-> "OnComponentRemoved", entity |-> e,
                          entityMask |-> EntityMask(e),
                          componentMask |-> EntityMask(e),
                          worldMask |-> EntityMask(e)]]]_vars

\* The last call destroyed an entity with two components while two
\* listeners were registered for on-remove events.
C21_Witness ==
    /\ Len(calls) = 2 /\ calls[1].kind = "OnComponentRemoved"
    /\ calls[1].listener # calls[2].listener
    /\ calls[1].entity \notin Live
    /\ Cardinality(calls[1].componentMask) = 2

\* C22: for every add, remove and destroy event the registered listeners of
\* its kind are invoked in the order in which they were registered, each
\* exactly once, with the same arguments.
C22_InRegistrationOrder ==
    \A i \in 1..Len(calls) :
        LET fns == Registered(calls[i].kind)
            n == Len(fns)
            first == i - ((i - 1) % n)
        IN /\ n > 0 /\ Len(calls) % n = 0
           /\ calls[i].listener = fns[(i - first) + 1]
           /\ [calls[i] EXCEPT !.listener = fns[1]] = calls[first]

\* The last call added two components while the client's listener was
\* registered before the system's.
C22_Witness ==
    /\ Len(calls) = 4 /\ calls[1].kind = "OnComponentAdded"
    /\ Registered("OnComponentAdded") = <<TheProbe, TheSystem>>
    /\ calls[3].componentMask # calls[1].componentMask

\* Step: AddComponent( e, components... ) on a live entity returns.
AddPackReturns(entity, components) ==
    /\ Running /\ entity \in Live
    /\ Returns(AddComponent_Recurse(Fresh, entity, components))

\* The types of a pack that an entity with the given mask does not have yet,
\* each once, in argument order.
RECURSIVE Missing(_, _)
Missing(mask, components) ==
    IF components = <<>> THEN <<>>
    ELSE LET T == Head(components)[1]
         IN IF Filter(T) \subseteq mask THEN Missing(mask, Tail(components))
            ELSE <<T>> \o Missing(mask \cup Filter(T), Tail(components))

\* C24: AddComponent( e, v1..vn ) applies the adds in argument order: an add
\* whose type is already present is skipped, every type not yet present,
\* before or after a skipped one, is attached, each successful add is
\* notified once to every on-add listener, and nothing is rolled back.
C24_PackAddsEachMissing ==
    [][\A e \in Created : \A components \in ListenerPacks :
          AddPackReturns(e, components) =>
             LET new == Missing(EntityMask(e), components)
                 fns == Registered("OnComponentAdded")
             IN /\ EntityMask(e)' = EntityMask(e) \cup {Id(new[j]) : j \in 1..Len(new)}
                /\ ContainedIds(e)' = EntityMask(e)'
                /\ \A T \in Types :
                      ValidCount(Id(T))' = ValidCount(Id(T)) +
                          (IF \E j \in 1..Len(new) : new[j] = T THEN 1 ELSE 0)
                /\ cout' = [j \in 1..(Len(components) - Len(new)) |-> AlreadyContains]
                /\ Len(calls') = Len(new) * Len(fns)
                /\ \A j \in 1..Len(new) : \A i \in 1..Len(fns) :
                      LET call == calls'[(j - 1) * Len(fns) + i]
                      IN /\ call.kind = "OnComponentAdded" /\ call.entity = e
                         /\ call.componentMask = Filter(new[j])]_vars

\* The last call was an AddComponent that skipped one component of its pack
\* and attached the other.
C24_Witness ==
    /\ cout = <<AlreadyContains>> /\ returned = NoEntity
    /\ Len(calls) >= 1 /\ calls[1].kind = "OnComponentAdded"
    /\ Cardinality(calls[1].entityMask) = 2

\* AddComponent( e, c ) called once for each component of a pack, in order.
RECURSIVE AddOneByOne(_, _, _)
AddOneByOne(s, entity, components) ==
    IF components = <<>> THEN s
    ELSE AddOneByOne(AddComponent_Recurse(s, entity, <<Head(components)>>),
                     entity, Tail(components))

CreateReturns(entity) ==
    /\ Running
    /\ \E factor \in GrowthFactors :
          /\ CreateEntity(Fresh, factor).entity = entity
          /\ Returns(CreateEntity(Fresh, factor).s)

\* C28: on return from CreateEntity( ), for a fresh and for a recycled id
\* alike, the id is in the live-entity set, its mask is all-zero and its
\* list of component ids is empty.
C28_CreatedIsBlank ==
    [][\A e \in 0..DeadEntities :
          CreateReturns(e) =>
             /\ e \in Live'
             /\ EntityMask(e)' = {}
             /\ ContainedIds(e)' = {}]_vars

\* CWorld::IsEntityAlive: the id is not among the destroyed ids awaiting reuse.
IsEntityAlive(s, entity) == entity \notin Range(s.m_DeletedEntities)

\* C25: for every entity id, created, destroyed or never created,
\* IsEntityAlive( e ) is true if and only if e is in the live-entity set.
C25_AliveIffInLiveSet ==
    \A e \in 0..IdEntities : IsEntityAlive(State, e) <=> e \in Live

(***************************************************************************)
(* SpecRescan: a world with one system whose owner also calls the system's *)
(* UpdateMatchingEntities between the client's calls.                      *)
(***************************************************************************)
\* The loop of CSystem::UpdateMatchingEntities from entityID on.
RECURSIVE UpdateFrom(_, _)
UpdateFrom(s, entityID) ==
    IF entityID >= Len(s.m_EntityMasks) THEN s
    ELSE LET mask == At(s.m_EntityMasks, entityID)
             next ==
                IF (mask \cap s.m_ExclusionMask_Any) # {} THEN s
                ELSE IF (mask \cap s.m_ExclusionMask_All) = mask THEN s
                ELSE IF (mask \cap s.m_InclusionMask) = s.m_InclusionMask
                        /\ IsEntityAlive(s, entityID)
                     THEN [s EXCEPT !.m_MatchingEntities = insert(@, entityID)]
                     ELSE s
         IN UpdateFrom(next, entityID + 1)

UpdateMatchingEntities(s) == UpdateFrom(s, 0)

DoUpdateMatchingEntities ==
    /\ Perform(UpdateMatchingEntities(Fresh))
    /\ returned' = NoEntity
    /\ UNCHANGED <<handedOut, freedOrder, subscriptions>>

\* The filters of Spec, and a system that matches every entity without a
\* name.
RescanFilters ==
    SystemFilters \cup {<<{}, Filter("FNameComponent"), {}>>}

InitRescan ==
    \E f \in RescanFilters : InitAs(CWorld(IdEntities, f[1], f[2], f[3]), FALSE)
NextRescan ==
    \/ Client(IdEntities, IdTypes, IdPacks)
    \/ DoUpdateMatchingEntities
SpecRescan == InitRescan /\ [][NextRescan]_vars

\* C26: after UpdateMatchingEntities( ), whatever the matching set held
\* before the call, the matching set equals the filter formula evaluated
\* over the world's current masks and live set.
C26_RescanIsFilter ==
    Running =>
       Members(UpdateMatchingEntities(State).m_MatchingEntities)
          = {e \in Live : PassesFilter(e)}

(***************************************************************************)
(* SpecRegistry: dynamic initialisation of the statics FComponent<T>::Id   *)
(* and FComponent<T>::Filter.  They are static data members of a class     *)
(* template, so each is initialised only if the program uses it, and the   *)
(* initialisations are unordered with respect to each other.               *)
(***************************************************************************)
\* Static storage is zero-initialised before dynamic initialisation.
ZeroInitialized ==
    [componentId |-> 0,
     bit |-> 0,
     initialized |-> {},
     Id |-> [T \in Types |-> 0],
     Filter |-> [T \in Types |-> {}]]

\* const uint32_t FComponent<T>::Id( FBaseComponent::RegisterComponent( ) )
InitializeId(T) ==
    /\ <<T, "Id">> \notin registry.initialized
    /\ registry' = [registry EXCEPT
                       !.Id[T] = RegisterComponent(registry.componentId + 1),
                       !.componentId = @ + 1,
                       !.initialized = @ \cup {<<T, "Id">>}]

\* const BitMask FComponent<T>::Filter( FBaseComponent::GenerateBitset( ) )
InitializeFilter(T) ==
    /\ <<T, "Filter">> \notin registry.initialized
    /\ registry' = [registry EXCEPT
                       !.Filter[T] = GenerateBitset(registry.bit + 1),
                       !.bit = @ + 1,
                       !.initialized = @ \cup {<<T, "Filter">>}]

\* Everything but the registry: no world is used while statics are
\* initialised.
program ==
    <<m_LargestEntityIndex, m_Entities, m_DeletedEntities, m_EntityMasks,
      masksCapacity, m_ContainedComponentIDs, m_ComponentDestroyFunctions,
      m_ValidComponents, m_ComponentBuffers, m_MatchingEntities,
      m_InclusionMask, m_ExclusionMask_Any, m_ExclusionMask_All,
      m_OnComponentAddedFunctions, m_OnComponentRemovedFunctions, faults,
      recording, calls, hookCalls, cout, returned, handedOut, freedOrder,
      subscriptions>>

InitRegistry == registry = ZeroInitialized /\ WorldAs(World(0), FALSE)
NextRegistry ==
    \/ \E T \in Types : InitializeId(T) /\ UNCHANGED <<program, sparseSet, inserted, erased>>
    \/ \E T \in Types : InitializeFilter(T) /\ UNCHANGED <<program, sparseSet, inserted, erased>>
SpecRegistry == InitRegistry /\ [][NextRegistry]_vars

\* Types whose Id and Filter have both been initialised.
RegisteredTypes ==
    {T \in Types : {<<T, "Id">>, <<T, "Filter">>} \subseteq registry.initialized}

\* C27: for every registered component type T, whatever the order in which
\* the types' Id and Filter are first initialised, Id is in
\* [0, MAX_COMPONENTS), no two distinct types share an Id, and Filter has
\* exactly the bit Id set.
C27_FilterIsBitOfId ==
    /\ \A T \in RegisteredTypes :
          /\ registry.Id[T] \in 0..(MAX_COMPONENTS - 1)
          /\ registry.Filter[T] = {registry.Id[T]}
    /\ \A T, U \in RegisteredTypes : T # U => registry.Id[T] # registry.Id[U]

(***************************************************************************)
(* SpecSmall: a world constructed for fewer entities than the client       *)
(* creates.                                                                *)
(***************************************************************************)
\* initialEntities of the world.
SmallEntities == 1
\* Entity ids handed out by the counter stay below SmallCreated.
SmallCreated == 2

InitSmall ==
    InitAs(CWorld(SmallEntities, Filter("FPositionComponent"), {}, {}), FALSE)
NextSmall == Client(SmallCreated, IdTypes, IdPacks)
SpecSmall == InitSmall /\ [][NextSmall]_vars

\* C29: every id CreateEntity returned, also when more entities are created
\* than initialEntities, is a valid index into m_EntityMasks, into
\* m_ContainedComponentIDs and into m_ComponentDestroyFunctions, whose row
\* for the id has a hook for every component id.
C29_CreatedIdIndexesTables ==
    \A e \in handedOut :
       /\ MaskInRange(State, e)
       /\ RowInRange(State, e)
       /\ \A id \in ComponentIds : HookInRange(State, e, id)

\* Records the buffer of id has room for: buffer.size( ) / Size.
Capacity(id) == Len(m_ComponentBuffers[id])

\* C30: after AddComponent<T>( e, v ) attached T to e, the buffer of T has
\* room for more than e records, for any e including one beyond the room
\* the buffer had.
C30_StoreCoversEntity ==
    [][\A e \in Created : \A T \in Types : \A v \in Values :
          (AddReturns(e, T, v) /\ Id(T) \notin EntityMask(e))
             => Capacity(Id(T))' > e]_vars

(***************************************************************************)
(* SpecSet: a SparseSet<uint32_t> on its own, with a client that calls     *)
(* reserve, insert, erase and clear in any order.                          *)
(***************************************************************************)
\* Values the client passes: small ones and the largest value of T.
SetValues == {0, 1, 2, UINT32_MAX}
\* Capacities the client reserves.
SetCapacities == 1..3

\* Everything but the set, the client's record of it, and faults.
besidesSet ==
    <<m_LargestEntityIndex, m_Entities, m_DeletedEntities, m_EntityMasks,
      masksCapacity, m_ContainedComponentIDs, m_ComponentDestroyFunctions,
      m_ValidComponents, m_ComponentBuffers, m_MatchingEntities,
      m_InclusionMask, m_ExclusionMask_Any, m_ExclusionMask_All,
      m_OnComponentAddedFunctions, m_OnComponentRemovedFunctions,
      recording, calls, hookCalls, cout, returned, handedOut, freedOrder,
      subscriptions, registry>>

\* A call on the set: it returns with `after`, or, having indexed an array
\* past its end, is terminated in the call.
CallOnSet(after, outOfRange, insertedAfter, erasedAfter) ==
    /\ Running
    /\ \/ /\ sparseSet' = after
          /\ faults' = IF outOfRange THEN faults \cup {"table_range"} ELSE faults
          /\ inserted' = insertedAfter
          /\ erased' = erasedAfter
       \/ /\ outOfRange
          /\ faults' = faults \cup {"table_range", "terminated"}
          /\ UNCHANGED <<sparseSet, inserted, erased>>
    /\ UNCHANGED besidesSet

DoReserve(cap) == CallOnSet(reserve(sparseSet, cap), FALSE, inserted, erased)

DoInsert(val) ==
    CallOnSet(insert(sparseSet, val), insert_OutOfRange(sparseSet, val),
              IF val \in Range(inserted) THEN inserted ELSE Append(inserted, val),
              erased)

DoErase(val) ==
    CallOnSet(erase(sparseSet, val), erase_OutOfRange(sparseSet, val),
              Remove(inserted, val),
              erased \/ val \in Range(inserted))

DoClear == CallOnSet(clear(sparseSet), FALSE, <<>>, FALSE)

InitSet == InitAs(World(0), FALSE)
NextSet ==
    \/ \E cap \in SetCapacities : DoReserve(cap)
    \/ \E val \in SetValues : DoInsert(val)
    \/ \E val \in SetValues : DoErase(val)
    \/ DoClear
SpecSet == InitSet /\ [][NextSet]_vars

\* C31: for any sequence of insert and erase calls, has( v ) is true exactly
\* for the values inserted and not erased since, size( ) is their number,
\* and insert of a value that is present and erase of a value that is not
\* change nothing.
C31_HasIffInserted ==
    /\ \A v \in SetValues : has(sparseSet, v) <=> v \in Range(inserted)
    /\ sparseSet.m_Size = Len(inserted)
    /\ \A v \in Range(inserted) : insert(sparseSet, v) = sparseSet
    /\ \A v \in SetValues \ Range(inserted) : erase(sparseSet, v) = sparseSet

\* C40: after any sequence of reserve, insert, erase and clear,
\* size <= capacity, dense[ 0..size ) holds pairwise distinct values each
\* below capacity, sparse[ dense[ i ] ] == i for every i < size, and no
\* insert or erase indexed dense or sparse at capacity or beyond.
C40_SetWellFormed ==
    LET dense == sparseSet.m_DenseArray
        sparse == sparseSet.m_SparseArray
        size == sparseSet.m_Size
    IN /\ size <= sparseSet.m_Capacity
       /\ Len(dense) = sparseSet.m_Capacity /\ Len(sparse) = sparseSet.m_Capacity
       /\ \A i \in 0..(size - 1) :
             /\ i < Len(dense)
             /\ Below(At(dense, i), sparseSet.m_Capacity)
             /\ At(sparse, At(dense, i)) = i
       /\ \A i, j \in 0..(size - 1) :
             (i < Len(dense) /\ j < Len(dense) /\ i # j) => At(dense, i) # At(dense, j)
       /\ "table_range" \notin faults

\* The elements a loop from begin( ) to end( ) visits through the mutable
\* interface: [ m_DenseArray.begin( ), m_DenseArray.begin( ) + m_Size ).
Iterate(s) == SubSeq(s.m_DenseArray, 1, s.m_Size)

\* The same loop through the const interface:
\* [ m_DenseArray.begin( ), m_DenseArray.end( ) + m_Size ).  It visits the
\* whole of m_DenseArray, and when m_Size > 0 goes on past the end of the
\* vector, which is undefined behaviour.
IterateConst(s) ==
    [visited |-> s.m_DenseArray, pastEnd |-> s.m_Size > 0]

\* C32: iterating from begin( ) to end( ), through the mutable and through
\* the const interface alike, visits exactly dense[ 0..size ): every value
\* held once and nothing else, in insertion order when no erase occurred.
C32_IterationVisitsHeld ==
    Running =>
       /\ Len(Iterate(sparseSet)) = Len(inserted)
       /\ Range(Iterate(sparseSet)) = Range(inserted)
       /\ ~erased => Iterate(sparseSet) = inserted
       /\ ~IterateConst(sparseSet).pastEnd
       /\ IterateConst(sparseSet).visited = Iterate(sparseSet)

\* The part of C32 about the mutable interface.
C32_MutableIterationVisitsHeld ==
    Running =>
       /\ Len(Iterate(sparseSet)) = Len(inserted)
       /\ Range(Iterate(sparseSet)) = Range(inserted)
       /\ ~erased => Iterate(sparseSet) = inserted

\* C33: the system inserts an entity on an on-add event only if the
\* entity's mask after the add contains every bit of the inclusion mask.
C33_InsertOnlyWithAllOfInclusion ==
    [][\A e \in Created : \A T \in Types : \A v \in Values :
          (AddReturns(e, T, v) /\ e \notin Matching /\ e \in Matching')
             => m_InclusionMask \subseteq EntityMask(e)']_vars

\* T is in none of the system's masks.
InNoMask(T) ==
    Filter(T) \cap (m_InclusionMask \cup m_ExclusionMask_Any \cup m_ExclusionMask_All) = {}

\* C34: adding or removing, on a live entity, a component whose type is in
\* none of the system's masks leaves the matching set unchanged.
C34_UnrelatedLeavesMatching ==
    [][\A e \in Created : \A T \in Types :
          (InNoMask(T) /\ ((\E v \in Values : AddReturns(e, T, v)) \/ RemoveReturns(e, T)))
             => Matching' = Matching]_vars

\* C35: with a non-empty exclude-all mask, no live entity whose mask is
\* contained in the exclude-all mask is in the matching set.
C35_NoneWithinExcludeAll ==
    m_ExclusionMask_All # {} =>
       \A e \in Live : EntityMask(e) \subseteq m_ExclusionMask_All => e \notin Matching

\* The last call was an AddComponent of a type in none of the system's
\* masks, on a live entity that is not in the matching set.
C34_Witness ==
    /\ Len(calls) = 1 /\ calls[1].kind = "OnComponentAdded"
    /\ \E T \in Types : InNoMask(T) /\ calls[1].componentMask = Filter(T)
    /\ calls[1].entity \in Live \ Matching

(***************************************************************************)
(* SpecExcludeAll: systems that declare an exclude-all mask, and a client  *)
(* that creates entities and adds and removes components.                  *)
(***************************************************************************)
ExcludeAllFilters ==
    LET P == Filter("FPositionComponent")
        N == Filter("FNameComponent")
    IN {<<P, {}, N>>, <<P, {}, P>>, <<P, {}, P \cup N>>, <<P \cup N, {}, N>>}

InitExcludeAll ==
    \E f \in ExcludeAllFilters : InitAs(CWorld(MaxEntities, f[1], f[2], f[3]), FALSE)
NextExcludeAll ==
    \/ DoCreateEntity(MaxEntities)
    \/ DoCreateEntityWith(MaxEntities, Packs)
    \/ \E entity \in Live : DoAddComponent(entity, Packs)
    \/ \E entity \in Live : DoRemoveComponent(entity, ClientTypes)
SpecExcludeAll == InitExcludeAll /\ [][NextExcludeAll]_vars

\* m_ContainedComponentIDs[ e ], front first.
ContainedList(e) == At(m_ContainedComponentIDs, e)

C37_HookDestructsCurrentRecord ==
    [][\A e \in Created :
          DestroyReturns(e) =>
             \A i \in 1..Len(hookCalls') :
                LET hook == hookCalls'[i].hook
                    id == hookCalls'[i].id
                IN /\ hook.installed /\ ~hook.stale
                   /\ hook.slot < Len(m_ComponentBuffers[id])
                   /\ At(m_ComponentBuffers[id], hook.slot).live
                   /\ At(m_ComponentBuffers[id], hook.slot).Entity = e
                   /\ ~At(m_ComponentBuffers'[id], hook.slot).live]_vars

\* Step: AddComponent<T>( entity, component ) on the id of an entity that
\* was destroyed and has not been handed out again returns.
AddOnDeadReturns(entity, T, v) ==
    /\ Running /\ entity \in Created \ Live
    /\ Returns(AddComponent_Recurse(Fresh, entity, <<<<T, v>>>>))

\* C38: AddComponent<T>( e, v ) on an id that is not live leaves the world
\* unchanged: no record is constructed, the valid count of T, the mask of e
\* and the list of ids of e are unchanged, and the system does not insert e
\* into its matching set.
C38_AddOnDeadChangesNothing ==
    [][\A e \in Created : \A T \in DeadTypes : \A v \in Values :
          AddOnDeadReturns(e, T, v) =>
             /\ m_ComponentBuffers' = m_ComponentBuffers
             /\ m_ValidComponents' = m_ValidComponents
             /\ m_EntityMasks' = m_EntityMasks
             /\ m_ContainedComponentIDs' = m_ContainedComponentIDs
             /\ Matching' = Matching]_vars

\* C39: AddComponent<T>( e, v ) and RemoveComponent<T>( e ) change only
\* entity e and type T: the mask and the list of ids of every other entity,
\* every other bit of the mask of e, and the valid count of every other
\* component type are left as they were.
C39_OnlyEntityAndType ==
    [][\A e \in Created : \A T \in Types :
          ((\E v \in Values : AddReturns(e, T, v)) \/ RemoveReturns(e, T)) =>
             /\ \A other \in Created \ {e} :
                   /\ EntityMask(other)' = EntityMask(other)
                   /\ ContainedList(other)' = ContainedList(other)
             /\ EntityMask(e)' \ Filter(T) = EntityMask(e) \ Filter(T)
             /\ \A U \in Types \ {T} :
                   m_ValidComponents'[Id(U)] = m_ValidComponents[Id(U)]]_vars

\* The last call was an AddComponent that attached a second component to
\* an entity while another live entity carried a component.
C39_Witness ==
    /\ Len(calls) = 1 /\ calls[1].kind = "OnComponentAdded"
    /\ Cardinality(EntityMask(calls[1].entity)) = 2
    /\ \E other \in Live \ {calls[1].entity} : EntityMask(other) # {}

====
